---- MODULE Spec2Model ----
(***************************************************************************)
(* A model of sdreader.py: the mount enumeration (get_mounts and the three *)
(* read_mounts_* strategies), the copy engine (copy_files and              *)
(* copy_sd_card_contents, run on a worker thread), the erase action        *)
(* (format_sd_card) and the two button handlers of create_gui (on_select,  *)
(* on_format) that drive them.                                             *)
(*                                                                         *)
(* Paths are sequences of components: <<"media", "SD">> is /media/SD.      *)
(* Names and log texts are strings.                                        *)
(***************************************************************************)
EXTENDS Integers, Sequences, FiniteSets, TLC

VARIABLES
    os,               \* the host: what os.name / os.uname().sysname answer
    phase,            \* "start" (before get_mounts), "enumerated", "crashed", "gui", "quit"
    table,            \* the mount-table text the host query returns: a sequence of lines, each split() into fields
    enumerated,       \* what get_mounts did with it: [raised, exc, mounts]
    mounts,           \* create_gui's mounts argument
    destination_var,  \* the text of the destination entry
    ctx,              \* the one Context object: [base_destination, mount_point]
    selected_mounts,  \* create_gui's one selected_mounts list, shared by on_select, on_format and every worker
    current_file_var, \* the status text
    stop_animation,   \* the threading.Event
    source,           \* the source side: what copying each file does ("ok", or the exception it raises)
    dirs,             \* the directories that exist below the destination side
    fs,               \* the destination files: path -> contents
    log,              \* what plog printed, in order, thread by thread (thread 0 is the main thread)
    progress,         \* the files shown as "Copying: ..." in the status text, in order, thread by thread
    worker,           \* the copy_files threads: worker[w] is thread w's frame
    nStarted,         \* how many copy_files threads on_select has started
    nPresses,         \* how many times a button was pressed
    formatCalls       \* the devices format_sd_card was invoked for, in order, with what the subprocess did

vars == <<os, phase, table, enumerated, mounts, destination_var, ctx, selected_mounts,
          current_file_var, stop_animation, source, dirs, fs, log, progress, worker, nStarted,
          nPresses, formatCalls>>

\* ------------------------------------------------------------------ bounds

\* How many times the operator presses a button (Start copying, Format Mounts).
MaxPresses == 2

\* How many lines a mount table has at most.
MaxLines == 2

\* ------------------------------------------------------------- sequences

Last(s) == s[Len(s)]

Front(s) == SubSeq(s, 1, Len(s) - 1)

IsPrefix(p, s) == Len(p) <= Len(s) /\ SubSeq(s, 1, Len(p)) = p

RECURSIVE SelectSeq2(_, _)
\* The subsequence of s at the positions in keep (a set of indices), in order.
SelectSeq2(s, keep) ==
    IF s = <<>> THEN <<>>
    ELSE LET rest == SelectSeq2(Front(s), keep)
         IN  IF Len(s) \in keep THEN Append(rest, Last(s)) ELSE rest

\* ------------------------------------------------------------------ paths

\* os.path.join(a, b) for a relative b.
Join(a, b) == a \o b

\* What the file system makes of a path: "." names the directory itself and ".."
\* its parent.
RECURSIVE Norm(_)
Norm(p) ==
    IF p = <<>> THEN <<>>
    ELSE LET n == Norm(Front(p))
         IN  CASE Last(p) = "." -> n
               [] Last(p) = ".." /\ n # <<>> /\ Last(n) # ".." -> Front(n)
               [] OTHER -> Append(n, Last(p))

\* How many leading components a and b share.
RECURSIVE CommonLen(_, _)
CommonLen(a, b) ==
    IF a = <<>> \/ b = <<>> \/ a[1] # b[1] THEN 0
    ELSE 1 + CommonLen(Tail(a), Tail(b))

\* os.path.relpath(root, start): up from start to the common ancestor, then down
\* to root; "." when they are the same directory.
RelPath(root, start) ==
    LET c == CommonLen(root, start)
        rel == [k \in 1..(Len(start) - c) |-> ".."] \o SubSeq(root, c + 1, Len(root))
    IN  IF rel = <<>> THEN <<".">> ELSE rel

\* os.path.basename(mount_point.strip("/")): the last component, "" for "/".
MountName(mount_point) == IF mount_point = <<>> THEN "" ELSE Last(mount_point)

\* os.makedirs(p): p and every missing ancestor.
MakeDirs(ds, p) == ds \cup {SubSeq(Norm(p), 1, k) : k \in 1..Len(Norm(p))}

\* The hosts the program knows: os.uname().sysname on posix, os.name on Windows.
OSNames == {"Darwin", "Linux", "nt"}

\* ------------------------------------------------------------ enumeration

\* A mount table is a sequence of lines, and a line the sequence of fields
\* line.split() makes of it: <<>> for a blank line.

\* Python's `sub in s`.
Contains(s, sub) ==
    \E k \in 1..(Len(s) - Len(sub) + 1) : SubSeq(s, k, k + Len(sub) - 1) = sub

\* s.strip(chars) for a string chars.
RECURSIVE Strip(_, _)
Strip(s, chars) ==
    IF s = "" THEN s
    ELSE IF Contains(chars, SubSeq(s, 1, 1)) THEN Strip(Tail(s), chars)
    ELSE IF Contains(chars, SubSeq(s, Len(s), Len(s)))
         THEN Strip(SubSeq(s, 1, Len(s) - 1), chars)
    ELSE s

\* s.replace(ch, "") for a character ch.
RECURSIVE Remove(_, _)
Remove(s, ch) ==
    IF s = "" THEN s
    ELSE (IF Head(s) = ch THEN "" ELSE Head(s)) \o Remove(Tail(s), ch)

IsDigits(s) ==
    s # "" /\ \A k \in 1..Len(s) : Contains("0123456789", SubSeq(s, k, k))

DigitValue(c) ==
    CHOOSE v \in 0..9 : SubSeq("0123456789", v + 1, v + 1) = c

\* int(s) for a string of digits.
RECURSIVE ParseInt(_)
ParseInt(s) ==
    IF s = "" THEN 0
    ELSE 10 * ParseInt(SubSeq(s, 1, Len(s) - 1)) + DigitValue(SubSeq(s, Len(s), Len(s)))

Units == <<"B", "KB", "MB", "GB", "TB", "PB", "EB", "ZB", "YB">>

RECURSIVE Pow1024(_)
Pow1024(k) == IF k = 0 THEN 1 ELSE 1024 * Pow1024(k - 1)

\* bytes_to_human_readable, lines 15-27: the first unit in which the value is
\* below 1024, the value with two decimals (f"{x:.2f}" rounds to the nearest
\* hundredth, a tie to the even one).
bytes_to_human_readable(num_bytes) ==
    LET u == CHOOSE k \in 1..Len(Units) :
                 /\ num_bytes < Pow1024(k) \/ k = Len(Units)
                 /\ \A j \in 1..(k - 1) : num_bytes >= Pow1024(j)
        den == Pow1024(u - 1)
        q == (num_bytes * 100) \div den
        r == (num_bytes * 100) % den
        h == IF 2 * r > den \/ (2 * r = den /\ q % 2 = 1) THEN q + 1 ELSE q
        cents == h % 100
    IN  ToString(h \div 100) \o "." \o (IF cents < 10 THEN "0" ELSE "") \o ToString(cents)
            \o " " \o Units[u]

\* The devices for which the host's disk query answers "SD" media (diskutil
\* info) or "Removable Media" (wmic).
HostSaysRemovable == {"/dev/disk2s1", "D:"}

\* is_sd_card, lines 52-66 (with is_sd_card_mac, lines 44-49).
is_sd_card(o, device) ==
    CASE o = "Darwin" -> device \in HostSaysRemovable
      [] o = "Linux" -> Contains(device, "mmcblk") \/ Contains(device, "sd")
      [] o = "nt" -> device \in HostSaysRemovable
      [] OTHER -> FALSE

Raised(exc) == [raised |-> TRUE, exc |-> exc, mounts |-> <<>>]

Returned(ms) == [raised |-> FALSE, exc |-> "none", mounts |-> ms]

\* read_mounts_mac, lines 69-86: every line is indexed up to parts[5].
RECURSIVE read_mounts_mac(_)
read_mounts_mac(lines) ==
    IF lines = <<>> THEN Returned(<<>>)
    ELSE LET before == read_mounts_mac(Front(lines))
             parts == Last(lines)
         IN  IF before.raised THEN before
             ELSE IF Len(parts) < 6 THEN Raised("IndexError")
             ELSE Returned(Append(before.mounts,
                      [device |-> parts[1],
                       mount_point |-> parts[3],
                       filesystem_type |-> Strip(parts[5], "()"),
                       options |-> Strip(parts[6], "()"),
                       is_sd_card |-> is_sd_card("Darwin", parts[1])]))

\* read_mounts_linux, lines 89-106: every line is indexed up to parts[5].
RECURSIVE read_mounts_linux(_)
read_mounts_linux(lines) ==
    IF lines = <<>> THEN Returned(<<>>)
    ELSE LET before == read_mounts_linux(Front(lines))
             parts == Last(lines)
         IN  IF before.raised THEN before
             ELSE IF Len(parts) < 6 THEN Raised("IndexError")
             ELSE Returned(Append(before.mounts,
                      [device |-> parts[1],
                       mount_point |-> parts[2],
                       filesystem_type |-> parts[3],
                       options |-> parts[4],
                       dump |-> parts[5],
                       pass |-> parts[6],
                       is_sd_card |-> is_sd_card("Linux", parts[1])]))

\* dict(zip(keys, values)): the pairs up to the shorter of the two.
ZipDict(keys, values) ==
    LET n == IF Len(keys) < Len(values) THEN Len(keys) ELSE Len(values)
    IN  [key \in {keys[k] : k \in 1..n} |->
            values[CHOOSE k \in 1..n : keys[k] = key /\ \A j \in (k + 1)..n : keys[j] # key]]

\* read_mounts_windows, lines 118-126, for the lines after the header: a blank
\* line is skipped; any other must give DeviceID and a Size that int() accepts.
RECURSIVE WindowsRows(_, _)
WindowsRows(keys, rows) ==
    IF rows = <<>> THEN Returned(<<>>)
    ELSE LET before == WindowsRows(keys, Front(rows))
             values == Last(rows)
             mount_info == ZipDict(keys, values)
         IN  IF before.raised THEN before
             ELSE IF values = <<>> THEN before
             ELSE IF "DeviceID" \notin DOMAIN mount_info THEN Raised("KeyError")
             ELSE IF "Size" \notin DOMAIN mount_info THEN Raised("KeyError")
             ELSE IF ~IsDigits(mount_info["Size"]) THEN Raised("ValueError")
             ELSE Returned(Append(before.mounts,
                      [key \in DOMAIN mount_info \cup {"is_sd_card", "mount_point", "device"} |->
                          CASE key = "is_sd_card" -> is_sd_card("nt", mount_info["DeviceID"])
                            [] key = "mount_point" -> mount_info["DeviceID"]
                            [] key = "device" -> Remove(mount_info["DeviceID"], ":")
                            [] key = "Size" ->
                                 bytes_to_human_readable(ParseInt(mount_info["Size"]))
                            [] OTHER -> mount_info[key]]))

\* read_mounts_windows, lines 109-127: lines[0] is read as the header first.
read_mounts_windows(lines) ==
    IF lines = <<>> THEN Raised("IndexError")
    ELSE WindowsRows(lines[1], Tail(lines))

\* get_mounts, lines 130-138.
get_mounts(o, lines) ==
    CASE o = "Darwin" -> read_mounts_mac(lines)
      [] o = "Linux" -> read_mounts_linux(lines)
      [] o = "nt" -> read_mounts_windows(lines)
      [] OTHER -> Returned(<<>>)

\* The lines a host's mount table is made of here: complete ones, a short one
\* and a blank one.
LinePool(o) ==
    CASE o = "Darwin" ->
            { <<"/dev/disk2s1", "on", "/Volumes/SD", "(msdos,", "local,", "nodev)">>,
              <<"map", "auto_home", "on", "/home", "(autofs,", "automounted,", "nobrowse)">>,
              <<"/dev/disk3s1", "on", "/Volumes/X", "(apfs)">>,
              <<>> }
      [] o = "Linux" ->
            { <<"/dev/sdb1", "/media/SD", "vfat", "rw", "0", "0">>,
              <<"proc", "/proc", "proc", "rw,nosuid", "0", "0">>,
              <<"none", "/mnt/bind">>,
              <<>> }
      [] o = "nt" ->
            { <<"DeviceID", "FileSystem", "FreeSpace", "Size", "VolumeName">>,
              <<"C:", "NTFS", "1024", "3145728", "System">>,
              <<"D:", "FAT32", "512", "1152", "SD">>,
              <<"E:">>,
              <<>> }
      [] OTHER -> {}

Tables(o) == UNION {[1..n -> LinePool(o)] : n \in 0..MaxLines}

\* ----------------------------------------------------------- the host's side

\* The volumes create_gui is given: get_mounts' records, of which the handlers
\* read "mount_point" and "device". Two of them share the basename SD.
SampleMounts ==
    << [device |-> <<"dev", "sdb1">>, mount_point |-> <<"media", "SD">>],
       [device |-> <<"dev", "sdc1">>, mount_point |-> <<"mnt", "SD">>],
       [device |-> <<"dev", "mmcblk0p1">>, mount_point |-> <<"media", "CAM">>] >>

\* What os.walk(top) yields, top-down: one (root, files) entry per directory.
\* A top that is no directory (a device node) yields nothing.
Walk(top) ==
    CASE top = <<"media", "SD">> ->
            << [root |-> top, files |-> <<"a.jpg">>],
               [root |-> Join(top, <<"DCIM">>), files |-> <<"b.jpg">>] >>
      [] top = <<"mnt", "SD">> ->
            << [root |-> top, files |-> <<"a.jpg">>] >>
      [] top = <<"media", "CAM">> ->
            << [root |-> top, files |-> <<>>],
               [root |-> Join(top, <<"DCIM">>), files |-> <<"c.mov">>] >>
      [] OTHER -> <<>>

\* The files of a source tree, as full paths.
FilesOf(top) ==
    UNION {{Join(Walk(top)[d].root, <<Walk(top)[d].files[f]>>) :
              f \in 1..Len(Walk(top)[d].files)} : d \in 1..Len(Walk(top))}

\* The bytes of a source file: every file has contents of its own.
ContentOf(src) == [bytes_of |-> src]

\* The texts the operator may have in the destination entry when pressing Start.
DestinationTexts == {<<"data">>, <<"backup">>}

\* What shutil.copy2 can do for one file: copy it, or raise PermissionError (the
\* file may not be read), or raise another OSError (an I/O error of the medium).
CopyOutcomes == {"ok", "PermissionError", "OSError"}

\* The source sides of a list of volumes: every file with what copying it does.
SourceSides(ms) ==
    [UNION {FilesOf(ms[k].mount_point) : k \in 1..Len(ms)} -> CopyOutcomes]

\* shutil.copy2(src, dst): into a directory that does not exist it raises
\* (FileNotFoundError, an OSError), whatever the source.
copy2(src, dst) ==
    IF Front(Norm(dst)) \in dirs THEN source[src] ELSE "OSError"

\* What subprocess.run can do in format_sd_card: the command exits 0, exits
\* non-zero (no check=True: run returns all the same), or run itself raises
\* (the command is missing or may not be executed). On Windows the call passes
\* input=b"Y\n" with text=True, and writing bytes to the text pipe raises.
SubprocessOutcomes(o) ==
    IF o = "nt" THEN {"raises"} ELSE {"exit 0", "exit non-zero", "raises"}

\* ------------------------------------------------------------- the Context

\* The attributes a Context object has: the dataclass fields. Nothing in the
\* program ever sets another one.
ContextFields ==
    {"mount_point", "root", "current_file_var", "base_destination", "gif_frames",
     "stop_animation"}

\* --------------------------------------------------------- the copy engine

\* Every press of Start copying may start a thread.
Workers == 1..MaxPresses

MainThread == 0

NewFrame ==
    [pc |-> "unstarted",   \* "unstarted", "loop", "walk", "files", "finish", "dead", "returned"
     i |-> 0,              \* how many items enumerate(selected_mounts) has handed out
     mount_point |-> <<>>, \* copy_files' local
     walk |-> <<>>,        \* what the os.walk generator of the running call yields
     d |-> 0,              \* the walk entry being processed
     f |-> 0,              \* the file of it being processed
     dest_path |-> <<>>,   \* copy_sd_card_contents' local
     exc |-> "none",       \* the exception that ended the thread
     task |-> [mounts |-> <<>>, base |-> <<>>],  \* what on_select started it with
     calls |-> <<>>,       \* the copy_sd_card_contents calls made: [index, mount_point, root, returned]
     attempts |-> <<>>]    \* the copy2 calls made: [call, src, dst, outcome]

Running(w) == worker[w].pc \in {"loop", "walk", "files", "finish"}

\* f"{mount_name}_{i}"
DestName(mount_name, i) == mount_name \o "_" \o ToString(i)

\* NextBase with the destination taken afresh from the entry and the index left
\* out of the name.
NextBaseNoIndex(base_destination, mount_name, i) ==
    Join(destination_var, <<mount_name>>)

\* os.path.join(ctx.base_destination, f"{mount_name}_{i}"): the value line 190
\* stores back into ctx.base_destination.
NextBase(base_destination, mount_name, i) ==
    Join(base_destination, <<DestName(mount_name, i)>>)

\* dest_path = os.path.join(ctx.base_destination, relative_path)
DestPath(base_destination, relative_path) == Join(base_destination, relative_path)

\* Caught without the except clause.
CaughtNothing(exc) == FALSE

\* except PermissionError: the exceptions the per-file handler catches.
Caught(exc) == exc = "PermissionError"

\* copy_files, lines 188-194, and the entry of copy_sd_card_contents, lines
\* 148-151: take the next mount point of the shared list, extend
\* ctx.base_destination, create it, start the walk. With the list exhausted,
\* leave the loop.
CopyFilesLoop(w) ==
    /\ worker[w].pc = "loop"
    /\ LET fr == worker[w] IN
       IF fr.i < Len(selected_mounts)
       THEN LET mount_point == selected_mounts[fr.i + 1]
                mount_name == MountName(mount_point)
                base == NextBase(ctx.base_destination, mount_name, fr.i)
            IN  /\ ctx' = [base_destination |-> base, mount_point |-> mount_point]
                /\ dirs' = MakeDirs(dirs, base)
                /\ worker' = [worker EXCEPT ![w] =
                       [fr EXCEPT !.pc = "walk", !.i = fr.i + 1,
                                  !.mount_point = mount_point,
                                  !.walk = Walk(mount_point), !.d = 1, !.f = 0,
                                  !.calls = Append(fr.calls,
                                      [index |-> fr.i, mount_point |-> mount_point,
                                       root |-> base, returned |-> FALSE])]]
       ELSE /\ worker' = [worker EXCEPT ![w].pc = "finish"]
            /\ UNCHANGED <<ctx, dirs>>
    /\ UNCHANGED <<os, source, phase, table, enumerated, mounts, destination_var, selected_mounts,
                   current_file_var, stop_animation, fs, log, progress, nStarted,
                   nPresses, formatCalls>>

\* copy_sd_card_contents, lines 151-155: the next directory of the walk is
\* mirrored under ctx.base_destination and created; with the walk exhausted the
\* call returns to copy_files' loop.
WalkDir(w) ==
    /\ worker[w].pc = "walk"
    /\ LET fr == worker[w] IN
       IF fr.d <= Len(fr.walk)
       THEN LET relative_path == RelPath(fr.walk[fr.d].root, ctx.mount_point)
                dest_path == DestPath(ctx.base_destination, relative_path)
            IN  /\ dirs' = MakeDirs(dirs, dest_path)
                /\ worker' = [worker EXCEPT ![w] =
                       IF fr.walk[fr.d].files = <<>>
                       THEN [fr EXCEPT !.dest_path = dest_path, !.d = fr.d + 1]
                       ELSE [fr EXCEPT !.dest_path = dest_path, !.f = 1, !.pc = "files"]]
       ELSE /\ worker' = [worker EXCEPT ![w] =
                   [fr EXCEPT !.pc = "loop",
                              !.calls[Len(fr.calls)].returned = TRUE]]
            /\ UNCHANGED dirs
    /\ UNCHANGED <<os, source, phase, table, enumerated, mounts, destination_var, ctx,
                   selected_mounts, current_file_var, stop_animation, fs, log, progress,
                   nStarted, nPresses, formatCalls>>

\* copy_sd_card_contents, lines 156-167: one file. A copy is logged and shown in
\* the status text; a PermissionError is logged and the loop continues; any other
\* exception leaves the function, copy_files and the thread.
CopyFile(w) ==
    /\ worker[w].pc = "files"
    /\ LET fr == worker[w]
           file == fr.walk[fr.d].files[fr.f]
           src_file == Join(fr.walk[fr.d].root, <<file>>)
           dest_file == Join(fr.dest_path, <<file>>)
           next == IF fr.f < Len(fr.walk[fr.d].files)
                   THEN [fr EXCEPT !.f = fr.f + 1]
                   ELSE [fr EXCEPT !.d = fr.d + 1, !.f = 0, !.pc = "walk"]
       IN  LET outcome == copy2(src_file, dest_file)
               attempt == [call |-> Len(fr.calls), src |-> src_file,
                             dst |-> dest_file, outcome |-> outcome]
           IN    IF outcome = "ok"
                 THEN /\ fs' = (Norm(dest_file) :> ContentOf(src_file)) @@ fs
                      /\ log' = [log EXCEPT ![w] = Append(@,
                             [text |-> "Copied", src |-> src_file, dst |-> dest_file])]
                      /\ current_file_var' = [text |-> "Copying: ", file |-> src_file]
                      /\ progress' = [progress EXCEPT ![w] = Append(@, src_file)]
                      /\ worker' = [worker EXCEPT ![w] =
                             [next EXCEPT !.attempts = Append(fr.attempts, attempt)]]
                 ELSE IF Caught(outcome)
                 THEN /\ log' = [log EXCEPT ![w] = Append(@,
                             [text |-> "Permission denied: ", src |-> src_file,
                              dst |-> <<>>])]
                      /\ worker' = [worker EXCEPT ![w] =
                             [next EXCEPT !.attempts = Append(fr.attempts, attempt)]]
                      /\ UNCHANGED <<fs, current_file_var, progress>>
                 ELSE /\ worker' = [worker EXCEPT ![w] =
                             [fr EXCEPT !.pc = "dead", !.exc = outcome,
                                        !.attempts = Append(fr.attempts, attempt)]]
                      /\ UNCHANGED <<fs, log, current_file_var, progress>>
    /\ UNCHANGED <<os, phase, table, enumerated, mounts, destination_var, ctx,
                   selected_mounts, stop_animation, source, dirs, nStarted, nPresses, formatCalls>>

\* copy_files, lines 195-198: ctx.activity_label is read first. A Context has no
\* such attribute, so the read raises AttributeError and the thread ends there;
\* with the attribute, the done signal would follow.
CopyFilesFinish(w) ==
    /\ worker[w].pc = "finish"
    /\ IF "activity_label" \in ContextFields
       THEN /\ stop_animation' = TRUE
            /\ current_file_var' = [text |-> "Done copying !", file |-> <<>>]
            /\ worker' = [worker EXCEPT ![w].pc = "returned"]
       ELSE /\ worker' = [worker EXCEPT ![w].pc = "dead", ![w].exc = "AttributeError"]
            /\ UNCHANGED <<stop_animation, current_file_var>>
    /\ UNCHANGED <<os, source, phase, table, enumerated, mounts, destination_var, ctx,
                   selected_mounts, dirs, fs, log, progress, nStarted, nPresses, formatCalls>>


\* ------------------------------------------------------- the button handlers

\* on_select, lines 257-271, pressed with the checkboxes `checked` ticked and
\* `text` in the destination entry. The list it fills is the one list of
\* create_gui; a non-empty selection starts a copy_files thread on ctx and that
\* list. (The animate_gif thread it starts as well is called without its
\* argument and ends at once with a TypeError; it touches no state.)
on_select(checked, text) ==
    /\ phase = "gui"
    /\ nPresses < MaxPresses
    /\ nPresses' = nPresses + 1
    /\ destination_var' = text
    /\ LET picked == SelectSeq2(mounts, checked)
           chosen == [k \in 1..Len(picked) |-> picked[k].mount_point]
       IN  /\ selected_mounts' = chosen
           /\ ctx' = [ctx EXCEPT !.base_destination = text]
           /\ IF chosen # <<>>
              THEN /\ dirs' = MakeDirs(dirs, text)
                   /\ nStarted' = nStarted + 1
                   /\ worker' = [worker EXCEPT ![nStarted + 1] =
                          [NewFrame EXCEPT !.pc = "loop",
                                           !.task = [mounts |-> chosen, base |-> text]]]
              ELSE UNCHANGED <<dirs, nStarted, worker>>
    /\ UNCHANGED <<os, source, phase, table, enumerated, mounts, current_file_var, stop_animation,
                   fs, log, progress, formatCalls>>

\* format_sd_card, lines 170-183, for the devices of `queue` in order, the
\* subprocess of the k-th doing outcomes[k]: the calls made until one raises.
RECURSIVE FormatQueue(_, _, _)
FormatQueue(queue, outcomes, k) ==
    IF k > Len(queue) THEN <<>>
    ELSE LET call == [device |-> queue[k], os |-> os, outcome |-> outcomes[k]]
         IN  IF outcomes[k] = "raises" THEN <<call>>
             ELSE <<call>> \o FormatQueue(queue, outcomes, k + 1)

\* on_format, lines 273-289, pressed with the checkboxes `checked` ticked, the
\* operator answering the dialog with `confirm`. It refills the same list with
\* devices; confirmed, it quits the main loop and formats them one by one. An
\* exception of format_sd_card leaves the for loop and the handler.
on_format(checked, confirm, outcomes) ==
    /\ phase = "gui"
    /\ nPresses < MaxPresses
    /\ nPresses' = nPresses + 1
    /\ LET picked == SelectSeq2(mounts, checked)
           queue == [k \in 1..Len(picked) |-> picked[k].device]
           made == FormatQueue(queue, outcomes, 1)
       IN  /\ selected_mounts' = queue
           /\ IF queue # <<>> /\ confirm
              THEN /\ phase' = "quit"
                   /\ formatCalls' = formatCalls \o made
                   /\ log' = [log EXCEPT ![MainThread] = @ \o
                          [k \in 1..Len(made) |->
                              [text |-> "Formatting", src |-> made[k].device,
                               dst |-> <<>>]]]
              ELSE UNCHANGED <<phase, formatCalls, log>>
    /\ UNCHANGED <<os, table, enumerated, mounts, destination_var, ctx, current_file_var,
                   stop_animation, source, dirs, fs, progress, worker, nStarted>>

\* ------------------------------------------------------- the state machines

NoResult == [raised |-> FALSE, exc |-> "none", mounts |-> <<>>]

\* create_gui has built the window for SampleMounts, with base_destination in
\* the entry and in ctx, and the main loop runs.
InitGui ==
    /\ os \in OSNames
    /\ phase = "gui"
    /\ table = <<>>
    /\ enumerated = NoResult
    /\ mounts = SampleMounts
    /\ destination_var = <<"data">>
    /\ ctx = [base_destination |-> <<"data">>, mount_point |-> <<>>]
    /\ selected_mounts = <<>>
    /\ current_file_var = [text |-> "Ready to copy files", file |-> <<>>]
    /\ stop_animation = FALSE
    /\ source \in SourceSides(mounts)
    /\ dirs = {}
    /\ fs = <<>>
    /\ log = [t \in {MainThread} \cup Workers |-> <<>>]
    /\ progress = [w \in Workers |-> <<>>]
    /\ worker = [w \in Workers |-> NewFrame]
    /\ nStarted = 0
    /\ nPresses = 0
    /\ formatCalls = <<>>

PressStart ==
    \E checked \in SUBSET (1..Len(mounts)), text \in DestinationTexts :
        on_select(checked, text)

PressFormat ==
    \E checked \in SUBSET (1..Len(mounts)), confirm \in BOOLEAN :
        \E outcomes \in IF confirm
                        THEN [1..Cardinality(checked) -> SubprocessOutcomes(os)]
                        ELSE {<<>>} :
            on_format(checked, confirm, outcomes)

WorkerStep ==
    \E w \in Workers :
        \/ CopyFilesLoop(w)
        \/ WalkDir(w)
        \/ CopyFile(w)
        \/ CopyFilesFinish(w)

\* Start copying has not started a copy task yet.
FirstTask == nStarted = 0

\* The same window on a Linux host with the last two volumes only.
InitTwoVolumes ==
    /\ os = "Linux"
    /\ phase = "gui"
    /\ table = <<>>
    /\ enumerated = NoResult
    /\ mounts = SubSeq(SampleMounts, 2, 3)
    /\ destination_var = <<"data">>
    /\ ctx = [base_destination |-> <<"data">>, mount_point |-> <<>>]
    /\ selected_mounts = <<>>
    /\ current_file_var = [text |-> "Ready to copy files", file |-> <<>>]
    /\ stop_animation = FALSE
    /\ source \in SourceSides(mounts)
    /\ dirs = {}
    /\ fs = <<>>
    /\ log = [t \in {MainThread} \cup Workers |-> <<>>]
    /\ progress = [w \in Workers |-> <<>>]
    /\ worker = [w \in Workers |-> NewFrame]
    /\ nStarted = 0
    /\ nPresses = 0
    /\ formatCalls = <<>>

\* The program under any interleaving of button presses and worker steps.
Next ==
    \/ PressStart
    \/ PressFormat
    \/ WorkerStep

SpecInterleaved == InitTwoVolumes /\ [][Next]_vars

\* The run of one copy task: the operator presses the buttons until Start
\* copying starts a thread, and then lets the thread run.
NextOneTask ==
    \/ FirstTask /\ PressStart
    \/ FirstTask /\ PressFormat
    \/ WorkerStep

SpecOneTask == InitGui /\ [][NextOneTask]_vars


\* The main program, lines 336-344, up to create_gui: enumerate, then drop the
\* device "C". An exception of get_mounts ends the program.
Enumerate ==
    /\ phase = "start"
    /\ LET result == get_mounts(os, table) IN
       /\ enumerated' = result
       /\ IF result.raised
          THEN phase' = "crashed" /\ UNCHANGED mounts
          ELSE /\ phase' = "enumerated"
               /\ mounts' = SelectSeq(result.mounts, LAMBDA m : m["device"] # "C")
    /\ UNCHANGED <<os, table, destination_var, ctx, selected_mounts, current_file_var,
                   stop_animation, source, dirs, fs, log, progress, worker, nStarted, nPresses,
                   formatCalls>>

\* The program at its start, on any host with any mount table.
InitEnum ==
    /\ os \in OSNames \cup {"java"}
    /\ phase = "start"
    /\ table \in Tables(os)
    /\ enumerated = NoResult
    /\ mounts = <<>>
    /\ destination_var = <<"data">>
    /\ ctx = [base_destination |-> <<"data">>, mount_point |-> <<>>]
    /\ selected_mounts = <<>>
    /\ current_file_var = [text |-> "No file being copied", file |-> <<>>]
    /\ stop_animation = FALSE
    /\ source \in SourceSides(mounts)
    /\ dirs = {}
    /\ fs = <<>>
    /\ log = [t \in {MainThread} \cup Workers |-> <<>>]
    /\ progress = [w \in Workers |-> <<>>]
    /\ worker = [w \in Workers |-> NewFrame]
    /\ nStarted = 0
    /\ nPresses = 0
    /\ formatCalls = <<>>

NextEnum == Enumerate

SpecEnum == InitEnum /\ [][NextEnum]_vars

\* ------------------------------------------------------------ the claims

Ended(w) == worker[w].pc \in {"dead", "returned"}

\* Where the file src of the volume mounted at mount_point belongs under root.
Mirrored(root, mount_point, src) == Norm(Join(root, RelPath(src, mount_point)))

\* The copy2 calls thread w made for src within its call number c.
AttemptsOf(w, c, src) ==
    {k \in 1..Len(worker[w].attempts) :
        worker[w].attempts[k].call = c /\ worker[w].attempts[k].src = src}

\* Thread w has walked every volume it was started with.
AllPairsProcessed(w) ==
    /\ Len(worker[w].calls) = Len(worker[w].task.mounts)
    /\ \A c \in 1..Len(worker[w].calls) : worker[w].calls[c].returned

\* C1: a PermissionError of one file's copy never ends the thread: the file is
\* logged and not copied, and the walk goes on. A task on volumes whose only
\* failing files are unreadable ones walks every volume, attempts every file
\* and copies every readable one to its mirrored path.
C1_PermissionDeniedIsSkipped ==
    \A w \in Workers :
        LET fr == worker[w] IN
        /\ fr.exc # "PermissionError"
        /\ \A k \in 1..Len(fr.attempts) :
              fr.attempts[k].outcome = "PermissionError" =>
                /\ \E j \in 1..Len(log[w]) :
                      /\ log[w][j].text = "Permission denied: "
                      /\ log[w][j].src = fr.attempts[k].src
                /\ Norm(fr.attempts[k].dst) \notin DOMAIN fs
                /\ \/ k < Len(fr.attempts)
                   \/ Running(w)
                   \/ fr.exc = "AttributeError"
        /\ ( /\ Ended(w)
             /\ \A c \in 1..Len(fr.task.mounts) : \A src \in FilesOf(fr.task.mounts[c]) :
                   source[src] # "OSError" ) =>
              /\ AllPairsProcessed(w)
              /\ \A c \in 1..Len(fr.calls) : \A src \in FilesOf(fr.calls[c].mount_point) :
                    /\ Cardinality(AttemptsOf(w, c, src)) = 1
                    /\ source[src] = "ok" =>
                          LET m == Mirrored(fr.calls[c].root, fr.calls[c].mount_point, src)
                          IN  m \in DOMAIN fs /\ fs[m] = ContentOf(src)

\* C1's case: a thread that ended after walking two volumes, the first file of
\* which was denied and a later one copied.
C1_Witness ==
    \E w \in Workers :
        /\ Ended(w)
        /\ Len(worker[w].calls) = 2
        /\ AllPairsProcessed(w)
        /\ Len(worker[w].attempts) >= 2
        /\ worker[w].attempts[1].outcome = "PermissionError"
        /\ \E k \in 2..Len(worker[w].attempts) :
              /\ worker[w].attempts[k].outcome = "ok"
              /\ Norm(worker[w].attempts[k].dst) \in DOMAIN fs

\* C2: a copy that fails with another exception than PermissionError is logged
\* and skipped, and does not end the thread.
C2_OtherErrorIsSkipped ==
    \A w \in Workers :
        \A k \in 1..Len(worker[w].attempts) :
            worker[w].attempts[k].outcome \notin {"ok", "PermissionError"} =>
              /\ worker[w].exc # worker[w].attempts[k].outcome
              /\ \E j \in 1..Len(log[w]) : log[w][j].src = worker[w].attempts[k].src

\* C3: a thread that has processed all its pairs and ended has emitted the done
\* signal: stop_animation is set and the status text is the done message.
C3_DoneSignalEmitted ==
    \A w \in Workers :
        (Ended(w) /\ AllPairsProcessed(w)) =>
            /\ stop_animation
            /\ current_file_var.text = "Done copying !"

\* C4: the destination root of the volume at position i of the selection is
\* baseDestination / (basename(mountPoint) + "_" + i).
C4_RootIsBaseJoinName ==
    \A w \in Workers :
        \A c \in 1..Len(worker[w].calls) :
            worker[w].calls[c].root =
                Join(worker[w].task.base,
                     <<DestName(MountName(worker[w].task.mounts[c]), c - 1)>>)

\* C5: the destination roots one thread hands to copy_sd_card_contents are
\* pairwise distinct.
C5_RootsPairwiseDistinct ==
    \A w \in Workers :
        \A c1, c2 \in 1..Len(worker[w].calls) :
            c1 # c2 => Norm(worker[w].calls[c1].root) # Norm(worker[w].calls[c2].root)

\* C5's case: one run with two volumes of the same basename.
C5_Witness ==
    \E w \in Workers :
        /\ Len(worker[w].calls) >= 2
        /\ worker[w].calls[1].mount_point # worker[w].calls[2].mount_point
        /\ MountName(worker[w].calls[1].mount_point)
             = MountName(worker[w].calls[2].mount_point)

\* C7: once a call of copy_sd_card_contents is over, every readable file of the
\* source tree is under the call's root exactly once, at the mirrored path, in
\* an existing directory, with the source's contents.
C7_ReadableFilesMirrored ==
    \A w \in Workers :
        \A c \in 1..Len(worker[w].calls) :
            LET call == worker[w].calls[c] IN
            (call.returned \/ Ended(w)) =>
                \A src \in FilesOf(call.mount_point) :
                    source[src] = "ok" =>
                        LET m == Mirrored(call.root, call.mount_point, src) IN
                        /\ m \in DOMAIN fs
                        /\ fs[m] = ContentOf(src)
                        /\ Front(m) \in dirs
                        /\ {p \in DOMAIN fs :
                              IsPrefix(Norm(call.root), p) /\ fs[p] = ContentOf(src)} = {m}

\* C8: every file the engine processed, copied or skipped, was shown exactly
\* once as a progress notification.
C8_OneProgressPerFile ==
    \A w \in Workers :
        \A k \in 1..Len(worker[w].attempts) :
            worker[w].attempts[k].outcome \in {"ok", "PermissionError"} =>
                Cardinality({j \in 1..Len(progress[w]) :
                                progress[w][j] = worker[w].attempts[k].src}) = 1

\* C9: once on_format has run its queue, format_sd_card was invoked for every
\* device of the queue, whatever the erase of an earlier device did.
C9_EveryQueuedDeviceFormatted ==
    phase = "quit" =>
        \A k \in 1..Len(selected_mounts) :
            \E j \in 1..Len(formatCalls) : formatCalls[j].device = selected_mounts[k]

\* C10: at most one thread copies at a time, and a thread walks the mount
\* points, and copies below the destination, it was started with.
C10_WorkerOwnsItsTask ==
    /\ Cardinality({w \in Workers : Running(w)}) <= 1
    /\ \A w \in Workers :
          /\ Running(w) => selected_mounts = worker[w].task.mounts
          /\ Len(worker[w].calls) <= Len(worker[w].task.mounts)
          /\ \A c \in 1..Len(worker[w].calls) :
                /\ worker[w].calls[c].mount_point = worker[w].task.mounts[c]
                /\ IsPrefix(worker[w].task.base, worker[w].calls[c].root)

\* Whether a line has the field count its strategy expects: six fields of
\* /proc/mounts, at least the six fields read of a mount line, as many values
\* as the header has columns.
Parseable(o, header, line) ==
    CASE o = "Darwin" -> Len(line) >= 6
      [] o = "Linux" -> Len(line) = 6
      [] o = "nt" -> Len(line) = Len(header)
      [] OTHER -> FALSE

\* The lines of a table that hold a record: on Windows those after the header.
DataLines(o, lines) == IF o = "nt" /\ lines # <<>> THEN Tail(lines) ELSE lines

\* C6: enumeration never raises, returns one record per line with the expected
\* field count and none for the others, and the empty sequence for empty input.
C6_EnumerationNeverRaises ==
    phase \in {"enumerated", "crashed"} =>
        /\ ~enumerated.raised
        /\ Len(enumerated.mounts) =
              Cardinality({k \in 1..Len(DataLines(os, table)) :
                  Parseable(os, IF table = <<>> THEN <<>> ELSE table[1],
                            DataLines(os, table)[k])})
        /\ table = <<>> => enumerated.mounts = <<>>

====
